---- MODULE Spec2Model ----
(***************************************************************************)
(* Vincenty geodesics on an ellipsoid (pygeodesy.ellipsoidalVincenty) and   *)
(* the ellipsoidal base class (pygeodesy.ellipsoidalBase).                  *)
(*                                                                          *)
(* Numbers.  Python floats are modelled on a fixed-point grid: a real x is  *)
(* the integer x * Scale, every product and quotient is rounded to the      *)
(* nearest grid value (half away from zero).  Angles in radians are on the  *)
(* same grid; lat/lon in degrees are integers in units of 1/DegScale        *)
(* degree; lengths are in units of 100 meter.  The float spacing at 1.0     *)
(* (fmath.EPS) is the spacing of the grid, one unit.                        *)
(***************************************************************************)
EXTENDS Integers, Sequences, FiniteSets, TLC

\* ------------------------------------------------------------------ grid
Scale    == 10 * 1000            \* grid units per 1.0
DegScale == 10                   \* lat/lon units per degree

Abs(x)  == IF x < 0 THEN -x ELSE x
Sgn(x)  == IF x < 0 THEN -1 ELSE IF x > 0 THEN 1 ELSE 0
Min(x, y) == IF x < y THEN x ELSE y
Max(x, y) == IF x < y THEN y ELSE x

\* the element of a set of one element: a value computed once and named
The(S) == CHOOSE v \in S : TRUE

\* a / b rounded to the nearest integer, half away from zero (b # 0)
Div(a, b) ==
    LET q == Abs(a) \div Abs(b)
        r == Abs(a) % Abs(b)
    IN  Sgn(a) * Sgn(b) * (IF r >= Abs(b) - r THEN q + 1 ELSE q)

\* fixed-point product and quotient
Mul(x, y)  == Div(x * y, Scale)
Quot(x, y) == Div(x * Scale, y)

\* math.pi and fractions of it on the grid
PI    == 31416
PI_2  == PI \div 2
PI2   == 2 * PI

\* fmath.EPS and fmath.EPS1 = 1 - EPS
EPS   == 1
EPS1  == Scale - EPS

\* integer square root, floor(sqrt(n)), by bisection on [lo, hi]
RECURSIVE SqrtIn(_, _, _)
SqrtIn(n, lo, hi) ==
    IF lo >= hi THEN lo
    ELSE LET mid == (lo + hi + 1) \div 2
         IN  IF mid * mid <= n THEN SqrtIn(n, mid, hi) ELSE SqrtIn(n, lo, mid - 1)

\* largest root whose square fits a signed 32 bit integer
SqrtMax == 46340

ISqrt(n) ==
    LET Nearest(r) ==
            IF r < SqrtMax /\ (r + 1) * (r + 1) - n < n - r * r THEN r + 1 ELSE r
    IN  Nearest(SqrtIn(n, 0, SqrtMax))

\* math.sqrt of a grid value: sqrt(x / Scale) * Scale = sqrt(x * Scale)
sqrt(x) == ISqrt(x * Scale)

\* fmath.hypot(x, y); arguments beyond 3 * Scale are halved together, so
\* that the sum of the squares fits
RECURSIVE hypot(_, _)
hypot(x, y) ==
    IF Max(Abs(x), Abs(y)) > 3 * Scale THEN 2 * hypot(Div(x, 2), Div(y, 2))
    ELSE ISqrt(x * x + y * y)

\* sine and cosine of r in [0, PI_2], Taylor polynomials in Horner form
SinQ(r) ==
    LET r2 == Mul(r, r)
        t4 == Scale - Div(r2, 72)
        t3 == Scale - Div(Mul(r2, t4), 42)
        t2 == Scale - Div(Mul(r2, t3), 20)
        t1 == Scale - Div(Mul(r2, t2), 6)
    IN  Mul(r, t1)

CosQ(r) ==
    LET r2 == Mul(r, r)
        t5 == Scale - Div(r2, 90)
        t4 == Scale - Div(Mul(r2, t5), 56)
        t3 == Scale - Div(Mul(r2, t4), 30)
        t2 == Scale - Div(Mul(r2, t3), 12)
    IN  Scale - Div(Mul(r2, t2), 2)

\* utily.sincos2: quadrant q and remainder r of rad by PI_2, then the sine
\* and cosine of r moved to quadrant q
sincos2(rad) ==
    LET x == rad % PI2
        q == Min(x \div PI_2, 3)
        r == x - q * PI_2
        Quadrant(s, c) ==
            CASE q = 0 -> <<s, c>>
              [] q = 1 -> <<c, -s>>
              [] q = 2 -> <<-s, -c>>
              [] OTHER -> <<-c, s>>
    IN  Quadrant(SinQ(r), CosQ(r))

sin(rad) == sincos2(rad)[1]
cos(rad) == sincos2(rad)[2]

\* angle in [0, PI_2] of the direction (x, y), x >= 0, y >= 0, not both 0:
\* bisection for the largest angle t with sin(t) * x <= cos(t) * y
RECURSIVE AtanIn(_, _, _, _)
AtanIn(y, x, lo, hi) ==
    IF lo >= hi THEN lo
    ELSE LET mid == (lo + hi + 1) \div 2
         IN  IF SinQ(mid) * x <= CosQ(mid) * y
             THEN AtanIn(y, x, mid, hi) ELSE AtanIn(y, x, lo, mid - 1)

\* math.atan2(y, x) in (-PI, PI], atan2(0, 0) = 0; arguments are scaled
\* down together while they exceed the range of a product with 1.0
RECURSIVE atan2(_, _)
atan2(y, x) ==
    IF Max(Abs(y), Abs(x)) > 20 * Scale THEN atan2(Div(y, 2), Div(x, 2))
    ELSE IF y = 0 THEN (IF x < 0 THEN PI ELSE 0)
    ELSE IF x = 0 THEN Sgn(y) * PI_2
    ELSE LET Signed(t) == IF x > 0 THEN Sgn(y) * t ELSE Sgn(y) * (PI - t)
         IN  Signed(AtanIn(Abs(y), Abs(x), 0, PI_2))

\* math.radians of lat/lon units, math.degrees to lat/lon units
radians(d) == Div(d * PI, 180 * DegScale)
degrees(r) == Div(r * 180 * DegScale, PI)


\* ------------------------------------------------------------ ellipsoids
\* datum.Ellipsoids: a and b in units of 100 meter, f, e2 = f(2 - f),
\* e22 = e2 / (1 - e2) and e12 = 1 - e2 on the grid
EllipsoidOf(a, f) ==
    LET e2 == Mul(f, 2 * Scale - f)
    IN  [a |-> a, b |-> Mul(a, Scale - f), f |-> f,
         e2 |-> e2, e22 |-> Quot(e2, Scale - e2), e12 |-> Scale - e2]

WGS84_a    == 63781
WGS84_f    == 34
Airy1830_a == 63776
Airy1830_f == 33

Ellipsoids == [WGS84    |-> EllipsoidOf(WGS84_a, WGS84_f),
               Airy1830 |-> EllipsoidOf(Airy1830_a, Airy1830_f),
               Intl1924 |-> EllipsoidOf(63784, 34)]

\* ------------------------------------------------- Vincenty's series
\* polynomial values are carried in units of 1 / CoefScale
CoefScale == 10 * 10

\* fmath.fpolynomial(x, cs[1], ..., cs[n]) = cs[1] + cs[2] x + ..., by
\* Horner's rule, in units of 1 / CoefScale
RECURSIVE fpolynomial(_, _)
fpolynomial(x, cs) ==
    IF Len(cs) = 1 THEN cs[1] * CoefScale
    ELSE cs[1] * CoefScale + Div(x * fpolynomial(x, Tail(cs)), Scale)

\* _p2: the A and B polynomials of u2
_p2(u2) ==
    [A |-> Div(fpolynomial(u2, <<16384, 4096, -768, 320, -175>>)
                 * (Scale \div CoefScale), 16384),
     B |-> Div(fpolynomial(u2, <<0, 256, -128, 74, -47>>)
                 * (Scale \div CoefScale), 1024)]

\* _dl: the longitude correction
_dl(f, c2a, sa, s, cs, ss, c2sm) ==
    LET C == Mul(Mul(Div(f, 16), c2a), 4 * Scale + Mul(f, 4 * Scale - 3 * c2a))
    IN  Mul(Mul(Mul(Scale - C, f), sa),
            s + Mul(Mul(C, ss), c2sm + Mul(Mul(C, cs), 2 * Mul(c2sm, c2sm) - Scale)))

\* _ds: the sigma correction
_ds(B, cs, ss, c2sm) ==
    LET c2sm2 == 2 * Mul(c2sm, c2sm) - Scale
        ss2   == Mul(4 * Mul(ss, ss) - 3 * Scale, 2 * c2sm2 - Scale)
    IN  Mul(Mul(B, ss), c2sm + Mul(Div(B, 4),
                Mul(c2sm2, cs) - Mul(Mul(Div(B, 6), c2sm), ss2)))

\* _r3: reduced cos, sin and tan of latitude a.  The tangent is kept as
\* the ratio tn / td, td = cos(radians(a)) >= 0, because tan(90 degrees)
\* is beyond the grid; c = 1 / hypot(1, t) and s = t * c are the same
\* values written with that ratio.
_r3(a, f) ==
    LET Reduced(sc) ==
            LET tn == Mul(Scale - f, sc[1])
                td == sc[2]
                Unit(h) == [c |-> Quot(td, h), s |-> Quot(tn, h),
                            tn |-> tn, td |-> td]
            IN  Unit(hypot(td, tn))
    IN  Reduced(sincos2(radians(a)))

\* utily.unroll180(lon1, lon2, wrap): the longitude difference, wrapped
\* to (-180, 180] when wrap is set
wrap180(d) ==
    LET m == d % (360 * DegScale)
    IN  IF m > 180 * DegScale THEN m - 360 * DegScale ELSE m

unroll180(lon1, lon2, wrap) ==
    LET d == lon2 - lon1
    IN  IF wrap /\ Abs(d) > 180 * DegScale THEN wrap180(d) ELSE d


\* -------------------------------------------------- the inverse method
\* values _inverse computes before its loop, for latitudes lat1, lat2,
\* longitudes lon1, lon2 and ellipsoid E
InverseEnv(lat1, lon1, lat2, lon2, wrap, E) ==
    LET Env(r1, r2) ==
            [c1 |-> r1.c, s1 |-> r1.s, c2 |-> r2.c, s2 |-> r2.s,
             c1c2 |-> Mul(r1.c, r2.c), s1c2 |-> Mul(r1.s, r2.c),
             c1s2 |-> Mul(r1.c, r2.s), s1s2 |-> Mul(r1.s, r2.s),
             dl |-> radians(unroll180(lon1, lon2, wrap)), f |-> E.f]
    IN  Env(_r3(lat1, E.f), _r3(lat2, E.f))

\* cosSqAlpha as _inverse uses it: within EPS of 0 it is set to 0 (the
\* equatorial line), any other value is kept
InverseC2a(c2a) == IF Abs(c2a) < EPS THEN 0 ELSE c2a

\* the locals of the loop before its first pass: ll = dl, the rest not
\* assigned yet (set lists the assigned names c2a and c2sm)
InverseLocals(env) ==
    [ll |-> env.dl, ss |-> 0, cs |-> 0, s |-> 0, sa |-> 0,
     c2a |-> 0, c2sm |-> 0, c2smSet |-> FALSE]

\* one pass of the loop body from locals v, up to the convergence test:
\* how the pass ends ("coincident": the return inside the loop, "pass":
\* the test is reached), the locals after it and |ll - ll_|
InversePass(env, v) ==
    LET Test(ss, cs, s, sa, c2a, c2sm, ll) ==
            IF ss < EPS
            THEN [end |-> "coincident", v |-> [v EXCEPT !.ss = ss], delta |-> 0]
            ELSE [end |-> "pass",
                  v |-> IF Abs(c2a) < EPS
                        THEN [v EXCEPT !.ll = ll, !.ss = ss, !.cs = cs, !.s = s,
                                       !.sa = sa, !.c2a = InverseC2a(c2a)]
                        ELSE [ll |-> ll, ss |-> ss, cs |-> cs, s |-> s, sa |-> sa,
                              c2a |-> InverseC2a(c2a), c2sm |-> c2sm,
                              c2smSet |-> TRUE],
                  delta |-> Abs(ll - v.ll)]
        Lambda(ss, cs, s, sa) ==
            LET c2a  == Scale - Mul(sa, sa)
                c2sm == cs - Quot(2 * env.s1s2, c2a)
            IN  Test(ss, cs, s, sa, c2a, c2sm,
                     IF Abs(c2a) < EPS
                     THEN env.dl + Mul(Mul(env.f, sa), s)
                     ELSE env.dl + _dl(env.f, c2a, sa, s, cs, ss, c2sm))
        Sigma(sll, ss, cs) ==
            Lambda(ss, cs, atan2(ss, cs), Quot(Mul(env.c1c2, sll), ss))
        Body(sc) ==
            Sigma(sc[1],
                  hypot(Mul(env.c2, sc[1]), env.c1s2 - Mul(env.s1c2, sc[2])),
                  env.s1s2 + Mul(env.c1c2, sc[2]))
    IN  Body(sincos2(v.ll))


\* utily._wrap(angle, wrap, modulo) in lat/lon units: an angle outside
\* [wrap - modulo, wrap) is reduced modulo modulo and, when it exceeds
\* wrap, by modulo once more, so that wrap itself is kept: degrees90 is
\* into [-270, 90], degrees180 into [-180, 180], degrees360 into [0, 360)
_wrap(angle, wrap, modulo) ==
    IF wrap > angle /\ angle >= wrap - modulo THEN angle
    ELSE LET m == angle % modulo
         IN  IF m > wrap THEN m - modulo ELSE m

\* variant of degrees360: the degrees of the angle, not wrapped
degrees360_signed(rad) == degrees(rad)

\* utily.degrees90, degrees180, degrees360 of an angle in radians
degrees90(rad)  == _wrap(degrees(rad),  90 * DegScale, 360 * DegScale)
degrees180(rad) == _wrap(degrees(rad), 180 * DegScale, 360 * DegScale)
degrees360(rad) == _wrap(degrees(rad), 360 * DegScale, 360 * DegScale)

\* variant of InverseResult: the series correction is applied whatever
\* c2a is, without A and B
InverseResult_always(env, E, v, azis) ==
    IF ~v.c2smSet THEN [err |-> "UnboundLocalError", val |-> <<>>]
    ELSE [err |-> "",
          val |-> IF azis THEN <<Mul(E.b, v.s - _ds(0, v.cs, v.ss, v.c2sm)), 0, 0>>
                  ELSE <<Mul(E.b, v.s - _ds(0, v.cs, v.ss, v.c2sm))>>]

\* the statements of _inverse after its loop: the distance (units of 100
\* meter) and, with azis, the initial and final bearing.  Reading c2sm
\* before any pass assigned it is Python's UnboundLocalError.
InverseResult(env, E, v, azis) ==
    LET Result(ab, sc) ==
            LET s  == IF v.c2a # 0
                      THEN Mul(ab.A, v.s - _ds(ab.B, v.cs, v.ss, v.c2sm))
                      ELSE v.s
                d  == Mul(E.b, s)
                f  == degrees360(atan2(Mul(env.c2, sc[1]),
                                       env.c1s2 - Mul(env.s1c2, sc[2])))
                r  == degrees360(atan2(Mul(env.c1, sc[1]),
                                       Mul(env.c1s2, sc[2]) - env.s1c2))
            IN  IF v.c2a # 0 /\ ~v.c2smSet
                THEN [err |-> "UnboundLocalError", val |-> <<>>]
                ELSE [err |-> "", val |-> IF azis THEN <<d, f, r>> ELSE <<d>>]
    IN  Result(_p2(Mul(v.c2a, E.e22)), sincos2(v.ll))

\* variant of InverseZero: a final bearing of 180 degrees
InverseZero_reversed(azis) == IF azis THEN <<0, 0, 180 * DegScale>> ELSE <<0>>

\* the value returned inside the loop for coincident points
InverseZero(azis) == IF azis THEN <<0, 0, 0>> ELSE <<0>>

\* --------------------------------------------------- the direct method
\* cosSqAlpha as _direct uses it: below EPS it is set to 0
DirectC2a(c2a) == IF c2a < EPS THEN 0 ELSE c2a

\* values _direct computes before its loop for start latitude lat,
\* ellipsoid E, distance (units of 100 meter) and bearing (lat/lon units)
DirectEnv(lat, E, distance, bearing) ==
    LET Env(r1, sc) ==
            LET si  == sc[1]
                ci  == sc[2]
                sa  == Mul(r1.c, si)
                c2a == Scale - Mul(sa, sa)
                Out(ab) ==
                    [c1 |-> r1.c, s1 |-> r1.s, si |-> si, ci |-> ci,
                     s12 |-> 2 * atan2(r1.tn, Mul(r1.td, ci)),
                     sa |-> sa, c2a |-> DirectC2a(c2a),
                     A |-> ab.A, B |-> ab.B,
                     d |-> Quot(distance, Mul(E.b, ab.A)), f |-> E.f]
            IN  Out(IF c2a < EPS THEN [A |-> Scale, B |-> 0]
                    ELSE _p2(Mul(c2a, E.e22)))
    IN  Env(_r3(lat, E.f), sincos2(radians(bearing)))

\* the locals of the loop before its first pass: s = d
DirectLocals(env) == [s |-> env.d, ss |-> 0, cs |-> 0, c2sm |-> 0]

\* one pass of the loop body from locals v, up to the convergence test
DirectPass(env, v) ==
    LET Test(sc, c2sm, s) ==
            [end |-> "pass",
             v |-> [s |-> s, ss |-> sc[1], cs |-> sc[2], c2sm |-> c2sm],
             delta |-> Abs(s - v.s)]
        Body(sc, c2sm) ==
            Test(sc, c2sm, env.d + _ds(env.B, sc[2], sc[1], c2sm))
    IN  Body(sincos2(v.s), cos(env.s12 + v.s))

\* variant of DirectResult: the longitude is the one on the auxiliary
\* sphere, without the correction _dl
DirectResult_sphere(env, v, llr, lon, h, datum) ==
    LET t == Mul(env.s1, v.ss) - Mul(Mul(env.c1, v.cs), env.ci)
        r == degrees360(atan2(env.sa, -t))
        a == degrees90(atan2(Mul(env.s1, v.cs) + Mul(Mul(env.c1, v.ss), env.ci),
                             Mul(Scale - env.f, hypot(env.sa, t))))
        b == degrees180(atan2(Mul(v.ss, env.si),
                              Mul(env.c1, v.cs) - Mul(Mul(env.s1, v.ss), env.ci))
                        + radians(lon))
    IN  IF llr THEN <<<<a, b, h, datum>>, r>> ELSE <<r>>

\* the statements of _direct after its loop: the final bearing and, with
\* llr, the destination <<lat, lon, height, datum>> before it
DirectResult(env, v, llr, lon, h, datum) ==
    LET t == Mul(env.s1, v.ss) - Mul(Mul(env.c1, v.cs), env.ci)
        r == degrees360(atan2(env.sa, -t))
        a == degrees90(atan2(Mul(env.s1, v.cs) + Mul(Mul(env.c1, v.ss), env.ci),
                             Mul(Scale - env.f, hypot(env.sa, t))))
        b == degrees180(atan2(Mul(v.ss, env.si),
                              Mul(env.c1, v.cs) - Mul(Mul(env.s1, v.ss), env.ci))
                        - _dl(env.f, env.c2a, env.sa, v.s, v.cs, v.ss, v.c2sm)
                        + radians(lon))
    IN  IF llr THEN <<<<a, b, h, datum>>, r>> ELSE <<r>>


\* ----------------------------------------------------------------- datums
\* datum.Datums: the ellipsoid of each datum; Sphere is not ellipsoidal
Datums == {"WGS84", "OSGB36"}

EllipsoidName(datum) ==
    IF datum = "WGS84" THEN "WGS84"
    ELSE IF datum = "ED50" THEN "Intl1924"
    ELSE "Airy1830"

\* LatLonEllipsoidalBase.ellipsoid: the ellipsoid of the point's datum
ellipsoid(pt) == Ellipsoids[EllipsoidName(pt.datum)]

\* Ellipsoid.__eq__: equal in a and f
EllipsoidEq(E1, E2) == E1.a = E2.a /\ E1.f = E2.f

\* variant of ellipsoids: the other point's ellipsoid is not compared
ellipsoids_unchecked(self, other) == [err |-> "", E |-> ellipsoid(self)]

\* LatLonEllipsoidalBase.ellipsoids(other): this point's ellipsoid, or
\* ValueError when the other point's ellipsoid differs
ellipsoids(self, other) ==
    LET Same(E, e) ==
            IF ~EllipsoidEq(e, E) THEN [err |-> "ValueError", E |-> E]
            ELSE [err |-> "", E |-> E]
    IN  Same(ellipsoid(self), ellipsoid(other))

\* ----------------------------------------------------------------- points
\* class attributes LatLon._epsilon (1.0e-12, below the grid spacing and so
\* one unit) and LatLon._iterations
_epsilon    == 1
_iterations == 50

None == <<>>

\* LatLonEllipsoidalBase.__init__: lat, lon, height and datum as given,
\* class defaults for the rest, the caches _3xyz, _utm and _ups empty
NewPoint(lat, lon, height, datum) ==
    [lat |-> lat, lon |-> lon, height |-> height, datum |-> datum,
     epsilon |-> _epsilon, iterations |-> _iterations,
     xyz |-> None, utm |-> None, ups |-> None]

\* variant of _update: the cached cartesian is kept
_update_keep(pt, updated) ==
    IF updated THEN [pt EXCEPT !.utm = None, !.ups = None] ELSE pt

\* LatLonEllipsoidalBase._update(updated): the caches are reset
_update(pt, updated) ==
    IF updated THEN [pt EXCEPT !.xyz = None, !.utm = None, !.ups = None]
    ELSE pt

\* the values assigned to a datum: the datums, a spherical datum and a
\* string; isinstance(datum, Datum) and datum.isEllipsoidal
DatumValues == Datums \cup {"Sphere", "str"}
IsDatum(datum)      == datum \in Datums \cup {"Sphere"}
IsEllipsoidal(datum) == datum \in Datums

\* the checks of the datum setter: the error raised, "" if none
DatumCheck(datum) ==
    IF ~IsDatum(datum) THEN "TypeError"
    ELSE IF ~IsEllipsoidal(datum) THEN "ValueError"
    ELSE ""

\* variant of SetDatumOf: every valid assignment resets the caches
SetDatumOf_reset(pt, datum) ==
    [pt |-> IF DatumCheck(datum) = ""
            THEN [_update(pt, TRUE) EXCEPT !.datum = datum]
            ELSE pt,
     err |-> DatumCheck(datum)]

\* LatLonEllipsoidalBase.datum setter: the checks, _update with
\* datum != self._datum, then the assignment
SetDatumOf(pt, datum) ==
    LET err == DatumCheck(datum)
    IN  [pt |-> IF err = ""
                THEN [_update(pt, datum # pt.datum) EXCEPT !.datum = datum]
                ELSE pt,
         err |-> err]

\* LatLonHeightBase lat, lon and height setters: _update with the
\* comparison of old and new value, then the assignment
SetLatOf(pt, lat)  == [_update(pt, lat # pt.lat) EXCEPT !.lat = lat]
SetLonOf(pt, lon)  == [_update(pt, lon # pt.lon) EXCEPT !.lon = lon]
SetHeightOf(pt, h) == [_update(pt, h # pt.height) EXCEPT !.height = h]

\* Ellipsoid.e2s2(s) = 1 - e2 * s^2
e2s2(E, s) == Scale - Mul(E.e2, Mul(s, s))

\* the cartesian to3xyz computes: <<x, y, z>> in units of 100 meter from
\* lat, lon and height of the point and ellipsoid E
Cartesian(pt, E) ==
    LET Vector(sca, scb) ==
            LET t == e2s2(E, sca[1])
                r == IF t > EPS1 THEN E.a
                     ELSE IF t > EPS THEN Quot(E.a, sqrt(t))
                     ELSE 0
                u == Mul(pt.height + r, sca[2])
            IN  <<Mul(u, scb[2]), Mul(u, scb[1]),
                  Mul(pt.height + Mul(r, E.e12), sca[1])>>
    IN  Vector(sincos2(radians(pt.lat)), sincos2(radians(pt.lon)))

\* LatLonEllipsoidalBase.to3xyz: the point after the call; the value
\* returned is its xyz
To3xyzOf(pt) ==
    IF pt.xyz = None THEN [pt EXCEPT !.xyz = Cartesian(pt, ellipsoid(pt))]
    ELSE pt

\* variant of e2s: the root is not taken
e2s_unrooted(E, s) == e2s2(E, s)

\* Ellipsoid.e2s(s) = sqrt(1 - e2 * s^2)
e2s(E, s) == sqrt(e2s2(E, s))

\* variant of to3llhCase: decided by r alone
to3llhCase_r(p, r) == IF r > 0 THEN "general" ELSE "polar"

\* the case split of to3llh on p = hypot(x, y) and r = hypot(p, z)
to3llhCase(p, r) ==
    IF Min(p, r) > 0 THEN "general"
    ELSE IF p > 0 THEN "equatorial"
    ELSE "polar"

\* CartesianBase.to3llh(datum): <<lat, lon, height>> of the cartesian xyz
\* on ellipsoid E, by Bowring's formulas; fmath.EPS is below the unit of
\* length, so a length exceeds it when it is positive.  The tangent t of
\* the parametric latitude is kept as the fraction tn / p, so that
\* c = 1 / hypot1(t) = p / hypot(tn, p) and s = t * c = tn / hypot(tn, p)
\* stay on the grid next to the poles; The names a value computed once
to3llh(xyz, E) ==
    LET Height(p, z, a, b, sc) ==
            <<degrees90(a), b,
              Mul(p, sc[2]) + Mul(z, sc[1]) - Mul(E.a, e2s(E, sc[1]))>>
        Latitude(p, z, b, s, c) ==
            The({Height(p, z, a, b, sincos2(a)) :
                   a \in {atan2(z + Mul(Mul(E.e22, Mul(s, Mul(s, s))), E.b),
                                p - Mul(Mul(E.e2, Mul(c, Mul(c, c))), E.a))}})
        Parametric(p, z, b, tn) ==
            The({Latitude(p, z, b, Quot(tn, h), Quot(p, h)) :
                   h \in {hypot(tn, p)}})
        Geodetic(x, y, z, p, r) ==
            IF to3llhCase(p, r) = "general"
            THEN The({Parametric(p, z, b, tn) :
                        b \in {degrees180(atan2(y, x))},
                        tn \in {Mul(Mul(Quot(E.b, E.a), z),
                                    Scale + Div(E.e22 * E.b, r))}})
            ELSE IF to3llhCase(p, r) = "equatorial"
            THEN <<0, degrees180(atan2(y, x)), p - E.a>>
            ELSE <<IF z < 0 THEN -90 * DegScale ELSE 90 * DegScale, 0,
                   Abs(z) - E.b>>
    IN  The({The({Geodetic(xyz[1], xyz[2], xyz[3], p, r) :
                    r \in {hypot(p, xyz[3])}}) :
               p \in {hypot(xyz[1], xyz[2])}})

\* datum.Transforms: the Helmert parameters of the transform from WGS84
\* to a datum: translations in units of 100 meter, rotations in radians
\* and the scale s (parts per million) as the factor 1 + s / 10^6, both
\* on the grid, where the rotations and the scale of OSGB36 and of ED50
\* round to none
Transforms ==
    [WGS84  |-> [tx |-> 0, ty |-> 0, tz |-> 0,
                 rx |-> 0, ry |-> 0, rz |-> 0, s |-> 0],
     OSGB36 |-> [tx |-> -4, ty |-> 1, tz |-> -5,
                 rx |-> 0, ry |-> 0, rz |-> 0, s |-> 0],
     ED50   |-> [tx |-> 1, ty |-> 1, tz |-> 1,
                 rx |-> 0, ry |-> 0, rz |-> 0, s |-> 0]]

\* Transform.transform(x, y, z, inverse): the inverse negates the seven
\* parameters and applies the same formula
transform(t, xyz, inverse) ==
    LET Apply(k, c) ==
            <<Mul(c, xyz[1] - Mul(k * t.rz, xyz[2]) + Mul(k * t.ry, xyz[3]))
                  + k * t.tx,
              Mul(c, xyz[2] + Mul(k * t.rz, xyz[1]) - Mul(k * t.rx, xyz[3]))
                  + k * t.ty,
              Mul(c, xyz[3] - Mul(k * t.ry, xyz[1]) + Mul(k * t.rx, xyz[2]))
                  + k * t.tz>>
        Signed(k) == Apply(k, Scale + k * t.s)
    IN  Signed(IF inverse THEN -1 ELSE 1)

\* LatLonHeightBase.copy: a new point with lat, lon, height, datum,
\* epsilon and iterations of pt, and no cached conversion
copy(pt) == [pt EXCEPT !.xyz = None, !.utm = None, !.ups = None]

\* variant of convertDatum: the result keeps the datum of the point
convertDatum_kept(pt, datum) ==
    [self |-> pt, val |-> copy(pt), steps |-> <<>>, calls |-> 1]

\* variant of convertDatum: the transform of the target datum is applied
\* forward whatever the datum of the point
convertDatum_forward(pt, datum) ==
    [self |-> To3xyzOf(pt),
     val |-> The({NewPoint(r[1], r[2], r[3], datum) :
                    r \in {to3llh(c, Ellipsoids[EllipsoidName(datum)]) :
                             c \in {transform(Transforms[datum], w, FALSE) :
                                      w \in {To3xyzOf(pt).xyz}}}}),
     steps |-> IF pt.datum = datum THEN <<>> ELSE <<(<<datum, FALSE>>)>>,
     calls |-> 1]

\* LatLonEllipsoidalBase.convertDatum(datum): the point after the call
\* (toCartesian caches its cartesian), the point returned, the Helmert
\* steps <<datum of the transform, inverse>> applied in order and the
\* number of calls of convertDatum, this one included
RECURSIVE convertDatum(_, _)
convertDatum(pt, datum) ==
    LET ToLatLon(r) == NewPoint(r[1], r[2], r[3], datum)
        Helmert(ll, t, i) ==
            The({ToLatLon(r) :
                   r \in {to3llh(c, Ellipsoids[EllipsoidName(datum)]) :
                            c \in {transform(t, w, i) :
                                     w \in {To3xyzOf(ll).xyz}}}})
        Via(n) ==
            [self  |-> n.self,
             val   |-> Helmert(n.val, Transforms[datum], FALSE),
             steps |-> Append(n.steps, <<datum, FALSE>>),
             calls |-> n.calls + 1]
    IN  IF pt.datum = datum
        THEN [self |-> pt, val |-> copy(pt), steps |-> <<>>, calls |-> 1]
        ELSE IF pt.datum = "WGS84"
        THEN [self  |-> To3xyzOf(pt),
              val   |-> Helmert(pt, Transforms[datum], FALSE),
              steps |-> <<(<<datum, FALSE>>)>>, calls |-> 1]
        ELSE IF datum = "WGS84"
        THEN [self  |-> To3xyzOf(pt),
              val   |-> Helmert(pt, Transforms[pt.datum], TRUE),
              steps |-> <<(<<pt.datum, TRUE>>)>>, calls |-> 1]
        ELSE The({Via(n) : n \in {convertDatum(pt, "WGS84")}})

\* utm.toUtm8(point, datum): the UTM coordinate, kept as the lat, lon and
\* datum it is of
Utm8(pt, datum) == <<"Utm", pt.lat, pt.lon, datum>>

\* LatLonEllipsoidalBase.toUtm: the point after the call
ToUtmOf(pt) ==
    IF pt.utm = None THEN [pt EXCEPT !.utm = Utm8(pt, pt.datum)] ELSE pt


\* fmath.scalar(value, low, high): an input is <<type, v>>; one that is no
\* int or float is a TypeError, one outside [low, high] a ValueError
scalar(value, low, high) ==
    IF value[1] # "float" THEN [err |-> "TypeError", v |-> 0]
    ELSE IF value[2] < low \/ value[2] > high THEN [err |-> "ValueError", v |-> 0]
    ELSE [err |-> "", v |-> value[2]]

\* the bounds of the iterations setter
MinIterations == 4
MaxIterations == 200

\* LatLon.epsilon setter: the new point record and the error raised
SetEpsilonOf(pt, eps) ==
    LET r == scalar(eps, EPS, Scale)
    IN  [pt |-> IF r.err = "" THEN [pt EXCEPT !.epsilon = r.v] ELSE pt,
         err |-> r.err]

\* variant of SetIterationsOf: the limit is stored as given
SetIterationsOf_unchecked(pt, limit) ==
    [pt |-> [pt EXCEPT !.iterations = limit[2]], err |-> ""]

\* LatLon.iterations setter: the new point record and the error raised
SetIterationsOf(pt, limit) ==
    LET r == scalar(limit, MinIterations, MaxIterations)
    IN  [pt |-> IF r.err = "" THEN [pt EXCEPT !.iterations = r.v] ELSE pt,
         err |-> r.err]

\* utily.isantipode with bases.isantipodeTo: latitudes opposite and
\* longitudes 180 degrees apart, both within eps degrees
wrap90(d) == _wrap(d, 90 * DegScale, 360 * DegScale)

isantipodeTo(self, other, eps) ==
    /\ Abs(wrap90(self.lat) + wrap90(other.lat)) * Scale < eps * DegScale
    /\ Abs((Abs(wrap180(self.lon) - wrap180(other.lon)) % (360 * DegScale))
           - 180 * DegScale) * Scale < eps * DegScale

\* ------------------------------------------------------------- the calls
\* a call of _inverse or _direct: pc is its position ("idle": no call,
\* "loop": before a pass of the for loop, "done": returned val, "raised":
\* raised err with the message msg), i the passes run, n the range of the loop, end and delta
\* the outcome of the last pass, low the least delta of all passes so far
IdleCall ==
    [pc |-> "idle", i |-> 0, n |-> 0, env |-> None, v |-> None,
     end |-> "", delta |-> 0, low |-> Scale * Scale,
     val |-> None, err |-> "", msg |-> <<>>]

\* variant of InRange: one pass more than n
InRange_inclusive(i, n) == i <= n

\* variants of Converged: a difference equal to epsilon converges; the
\* comparison is the wrong way round
Converged_inclusive(delta, epsilon) == delta <= epsilon
Converged_reversed(delta, epsilon)  == delta > epsilon

\* for _ in range(self._iterations): a pass follows after i passes of n
InRange(i, n) == i < n

\* if abs(ll - ll_) < self._epsilon, if abs(s - s_) < self._epsilon: break
Converged(delta, epsilon) == delta < epsilon

\* %r of a point in the message of an error: its latitude and longitude
repr(pt) == <<pt.lat, pt.lon>>

\* variant of Marker: the antipodal test with a tolerance of one degree
Marker_degree(self, other) ==
    IF isantipodeTo(self, other, Scale) THEN "antipodal " ELSE ""

\* t = 'antipodal ' if self.isantipodeTo(other, eps=self._epsilon) else ''
Marker(self, other) ==
    IF isantipodeTo(self, other, self.epsilon) THEN "antipodal " ELSE ""

\* the messages of the VincentyError of _inverse and of _direct
InverseError(self, other) ==
    <<"no convergence", repr(self), Marker(self, other), repr(other)>>
DirectError(self) == <<"no convergence", repr(self)>>

\* _inverse up to its loop: the ellipsoid check, then the values the loop
\* starts from
InverseStart(self, other, wrap) ==
    LET Loop(env) ==
            [IdleCall EXCEPT !.pc = "loop", !.n = self.iterations,
                             !.env = env, !.v = InverseLocals(env)]
        Start(r) ==
            IF r.err # ""
            THEN [IdleCall EXCEPT !.pc = "raised", !.err = r.err]
            ELSE Loop(InverseEnv(self.lat, self.lon, other.lat, other.lon,
                                 wrap, r.E))
    IN  Start(ellipsoids(self, other))

\* one pass of the loop of _inverse and what follows it: the return for
\* coincident points, the break on convergence and the statements after
\* the loop, the next pass, or the else clause of the loop
InverseStep(c, self, other, azis) ==
    LET After(h, res) ==
            IF res.err = ""
            THEN [h EXCEPT !.pc = "done", !.val = res.val]
            ELSE [h EXCEPT !.pc = "raised", !.err = res.err]
        Step(r) ==
            LET i == c.i + 1
                h == [c EXCEPT !.i = i, !.v = r.v, !.end = r.end,
                               !.delta = r.delta, !.low = Min(c.low, r.delta)]
            IN  IF r.end = "coincident"
                THEN [h EXCEPT !.pc = "done", !.val = InverseZero(azis)]
                ELSE IF Converged(r.delta, self.epsilon)
                THEN After(h, InverseResult(c.env, ellipsoid(self), r.v, azis))
                ELSE IF InRange(i, c.n)
                THEN h
                ELSE [h EXCEPT !.pc = "raised", !.err = "VincentyError",
                               !.msg = InverseError(self, other)]
    IN  Step(InversePass(c.env, c.v))

\* variant of HeightOf: a height of 0 counts as not given
HeightOf_falsy(self, height) ==
    IF height[1] /\ height[2] # 0 THEN height[2] ELSE self.height

\* h = self.height if height is None else height
HeightOf(self, height) == IF height[1] THEN height[2] ELSE self.height

\* _direct up to its loop
DirectStart(self, distance, bearing) ==
    LET Loop(env) ==
            [IdleCall EXCEPT !.pc = "loop", !.n = self.iterations,
                             !.env = env, !.v = DirectLocals(env)]
    IN  Loop(DirectEnv(self.lat, ellipsoid(self), distance, bearing))

\* one pass of the loop of _direct and what follows it
DirectStep(c, self, llr, height) ==
    LET Step(r) ==
            LET i == c.i + 1
                h == [c EXCEPT !.i = i, !.v = r.v, !.end = r.end,
                               !.delta = r.delta, !.low = Min(c.low, r.delta)]
            IN  IF Converged(r.delta, self.epsilon)
                THEN [h EXCEPT !.pc = "done",
                               !.val = DirectResult(c.env, r.v, llr, self.lon,
                                          HeightOf(self, height),
                                          self.datum)]
                ELSE IF InRange(i, c.n)
                THEN h
                ELSE [h EXCEPT !.pc = "raised", !.err = "VincentyError",
                               !.msg = DirectError(self)]
    IN  Step(DirectPass(c.env, c.v))

\* --------------------------------------------------------------- inputs
\* point pairs <<lat1, lon1, lat2, lon2>> of the inverse queries: the
\* fixtures of the tests and pairs near and at the antipode; a query of a
\* point against itself (other = 1) takes the first point of a pair
Pairs ==
    { <<0, 0, 0, 1800>>, <<0, 0, 5, 1795>>, <<0, 0, 5, 1797>>,
      <<0, 0, 10, 1795>>, <<0, 0, 0, 10>>, <<500, -57, 586, -31>>,
      <<450, 0, -450, 1800>>, <<0, 0, 20, 1780>>, <<300, 100, 300, 100>>,
      <<0, -1790, 0, 1795>>, <<900, 0, -900, 0>>,
      <<0, 0, 0, 50>> }

\* <<lat1, lon1, distance, bearing>> of the direct queries, one of them
\* with a bearing below 0
Courses ==
    { <<-380, 1444, 550, 3069>>, <<450, 0, 100000, 450>>,
      <<0, 0, 100000, 900>>, <<900, 0, 100000, 450>>,
      <<0, 0, 550, -900>> }

\* heights, in units of 100 meter
MaxHeight == 1
Heights   == 0 .. MaxHeight

\* the height argument <<given, h>>: height = None is not given
NoHeight == <<FALSE, 0>>

\* the values assigned to epsilon and iterations between the calls
SolverEpsilons   == {EPS, 4 * EPS}
SolverIterations == {MinIterations, MinIterations + 1, _iterations, MaxIterations}

\* the values assigned: numbers <<"float", x>>, and a string
Num(x) == <<"float", x>>
Str    == <<"str", 0>>

\* the public methods of LatLon that enter _inverse and _direct
InverseMethods ==
    {"distanceTo", "distanceTo3", "initialBearingTo", "finalBearingTo",
     "bearingTo2"}
DirectMethods == {"destination", "destination2", "finalBearingOn"}

\* the flag azis a method passes to _inverse, the flag llr it passes to _direct
MethodAzis(method) == method # "distanceTo"
MethodLlr(method)  == method # "finalBearingOn"

\* variant of Returned: the two bearings change places
Returned_swapped(method, val) ==
    CASE method = "initialBearingTo" -> <<val[3]>>
      [] method = "finalBearingTo"   -> <<val[2]>>
      [] method = "bearingTo2"       -> <<val[3], val[2]>>
      [] method = "destination"      -> <<val[1]>>
      [] OTHER                       -> val

\* what a method returns of the value val of _inverse or _direct, a tuple
Returned(method, val) ==
    CASE method = "initialBearingTo" -> <<val[2]>>
      [] method = "finalBearingTo"   -> <<val[3]>>
      [] method = "bearingTo2"       -> <<val[2], val[3]>>
      [] method = "destination"      -> <<val[1]>>
      [] OTHER                       -> val

\* ---------------------------------------------------------------- state
VARIABLES
    pts,    \* the points: 1 is the receiver of every call, 2 the other
    job,    \* the query this behaviour repeats
    call,   \* the call in progress
    prev,   \* configuration and value of the last call that returned
    out,    \* the last operation on a point: its argument, error and value;
            \* of a call the method, the receiver (arg), the error and
            \* the value returned
    thr     \* the positions and locals of two threads sharing point 1

vars == <<pts, job, call, prev, out, thr>>

\* no operation yet
NoOut == [op |-> "", p |-> 0, arg |-> None, err |-> "", val |-> None]

\* no threads
NoThreads == <<>>

NoPrev == [set |-> FALSE, epsilon |-> 0, iterations |-> 0, val |-> None]

InitInverse ==
    \E q \in Pairs, d \in Datums, o \in {1, 2}, w \in BOOLEAN,
       m \in {"distanceTo", "distanceTo3"} :
        /\ (w => Abs(q[4] - q[2]) > 180 * DegScale)
        /\ (o = 1 => d = "WGS84" /\ ~w)
        /\ pts = <<NewPoint(q[1], q[2], 0, "WGS84"),
                   IF o = 1 THEN NewPoint(q[1], q[2], 0, d)
                   ELSE NewPoint(q[3], q[4], 0, d)>>
        /\ job = [op |-> "inverse", method |-> m, other |-> o,
                  azis |-> MethodAzis(m), wrap |-> w,
                  distance |-> 0, bearing |-> 0, llr |-> FALSE, height |-> NoHeight]

InitDirect ==
    \E q \in Courses, m \in DirectMethods,
       h \in {NoHeight} \cup {<<TRUE, x>> : x \in Heights} :
        /\ (~MethodLlr(m) => ~h[1])
        /\ pts = <<NewPoint(q[1], q[2], MaxHeight, "WGS84"),
                   NewPoint(0, 0, 0, "WGS84")>>
        /\ job = [op |-> "direct", method |-> m, other |-> 1, azis |-> FALSE,
                  wrap |-> FALSE, distance |-> q[3], bearing |-> q[4],
                  llr |-> MethodLlr(m), height |-> h]

Init ==
    /\ InitInverse \/ InitDirect
    /\ call = IdleCall
    /\ prev = NoPrev
    /\ out = NoOut
    /\ thr = NoThreads

\* the query of a behaviour that makes no call of the solver
NoJob == [op |-> "none", method |-> "", other |-> 1, azis |-> FALSE, wrap |-> FALSE,
          distance |-> 0, bearing |-> 0, llr |-> FALSE, height |-> NoHeight]

\* ------------------------------------------------------------- actions
\* variant of SetEpsilon: the assignment reaches every point
SetEpsilon_shared(p, eps) ==
    /\ call.pc = "idle"
    /\ LET r == SetEpsilonOf(pts[p], eps)
       IN  /\ pts' = [q \in DOMAIN pts |->
                        IF r.err = "" THEN [pts[q] EXCEPT !.epsilon = r.pt.epsilon]
                        ELSE pts[q]]
           /\ out' = [NoOut EXCEPT !.op = "epsilon", !.p = p, !.arg = eps,
                                   !.err = r.err]
    /\ UNCHANGED <<job, call, prev, thr>>

\* p.epsilon = eps
SetEpsilon(p, eps) ==
    /\ call.pc = "idle"
    /\ LET r == SetEpsilonOf(pts[p], eps)
       IN  /\ pts' = [pts EXCEPT ![p] = r.pt]
           /\ out' = [NoOut EXCEPT !.op = "epsilon", !.p = p, !.arg = eps,
                                   !.err = r.err]
    /\ UNCHANGED <<job, call, prev, thr>>

\* p.iterations = limit
SetIterations(p, limit) ==
    /\ call.pc = "idle"
    /\ LET r == SetIterationsOf(pts[p], limit)
       IN  /\ pts' = [pts EXCEPT ![p] = r.pt]
           /\ out' = [NoOut EXCEPT !.op = "iterations", !.p = p, !.arg = limit,
                                   !.err = r.err]
    /\ UNCHANGED <<job, call, prev, thr>>

\* variant of InverseCall: the call relaxes the epsilon of the receiver
InverseCall_relaxing ==
    /\ call.pc = "idle" /\ job.op = "inverse"
    /\ call' = InverseStart(pts[1], pts[job.other], job.wrap)
    /\ pts' = [pts EXCEPT ![1].epsilon = 4 * @]
    /\ UNCHANGED <<job, prev, out, thr>>

\* distanceTo, distanceTo3, ...: _inverse is entered
InverseCall ==
    /\ call.pc = "idle" /\ job.op = "inverse"
    /\ call' = InverseStart(pts[1], pts[job.other], job.wrap)
    /\ UNCHANGED <<pts, job, prev, out, thr>>

\* a pass of the loop of _inverse
InverseIter ==
    /\ call.pc = "loop" /\ job.op = "inverse"
    /\ call' = InverseStep(call, pts[1], pts[job.other], job.azis)
    /\ UNCHANGED <<pts, job, prev, out, thr>>

\* destination, destination2, finalBearingOn: _direct is entered
DirectCall ==
    /\ call.pc = "idle" /\ job.op = "direct"
    /\ call' = DirectStart(pts[1], job.distance, job.bearing)
    /\ UNCHANGED <<pts, job, prev, out, thr>>

\* a pass of the loop of _direct
DirectIter ==
    /\ call.pc = "loop" /\ job.op = "direct"
    /\ call' = DirectStep(call, pts[1], job.llr, job.height)
    /\ UNCHANGED <<pts, job, prev, out, thr>>

\* the caller has the value or the error of the call
Return ==
    /\ call.pc \in {"done", "raised"}
    /\ prev' = IF call.pc = "done"
               THEN [set |-> TRUE, epsilon |-> pts[1].epsilon,
                     iterations |-> pts[1].iterations, val |-> call.val]
               ELSE prev
    /\ out' = [NoOut EXCEPT !.op = job.method, !.p = 1,
                            !.arg = repr(pts[1]), !.err = call.err,
                            !.val = IF call.pc = "done"
                                    THEN Returned(job.method, call.val)
                                    ELSE None]
    /\ call' = IdleCall
    /\ UNCHANGED <<pts, job, thr>>

Next ==
    \/ \E e \in SolverEpsilons : SetEpsilon(1, Num(e))
    \/ \E n \in SolverIterations : SetIterations(1, Num(n))
    \/ InverseCall
    \/ InverseIter
    \/ DirectCall
    \/ DirectIter
    \/ Return

Spec == Init /\ [][Next]_vars

\* ------------------------------------------------------- the methods
\* one pair of points is queried with one method of _inverse after the
\* other, under the configuration of the class
InitMethods ==
    /\ InitInverse
    /\ call = IdleCall
    /\ prev = NoPrev
    /\ out = NoOut
    /\ thr = NoThreads

\* the caller turns to method m, with the same points and wrap flag
Choose(m) ==
    /\ call.pc = "idle" /\ m # job.method
    /\ job' = [job EXCEPT !.method = m, !.azis = MethodAzis(m)]
    /\ UNCHANGED <<pts, call, prev, out, thr>>

NextMethods ==
    \/ \E m \in InverseMethods : Choose(m)
    \/ InverseCall
    \/ InverseIter
    \/ Return

SpecMethods == InitMethods /\ [][NextMethods]_vars

\* ------------------------------------------------------ both directions
\* the distance between two points of one datum is asked of the one and of
\* the other, both with the same epsilon and iterations; to the pairs of
\* the inverse queries is added one a third of the globe apart in latitude
InitReverse ==
    /\ \E q \in Pairs \cup {<<0, 0, 303, 1795>>}, e \in SolverEpsilons, n \in SolverIterations,
          w \in BOOLEAN :
          /\ (w => Abs(q[4] - q[2]) > 180 * DegScale)
          /\ pts = <<[NewPoint(q[1], q[2], 0, "WGS84")
                        EXCEPT !.epsilon = e, !.iterations = n],
                     [NewPoint(q[3], q[4], 0, "WGS84")
                        EXCEPT !.epsilon = e, !.iterations = n]>>
          /\ job = [NoJob EXCEPT !.op = "inverse", !.method = "distanceTo",
                                 !.other = 2, !.wrap = w]
    /\ call = IdleCall
    /\ prev = NoPrev
    /\ out = NoOut
    /\ thr = NoThreads

\* the caller turns to the other point: it is the receiver of the next call
Reverse ==
    /\ call.pc = "idle"
    /\ pts' = <<pts[2], pts[1]>>
    /\ UNCHANGED <<job, call, prev, out, thr>>

NextReverse ==
    \/ Reverse
    \/ InverseCall
    \/ InverseIter
    \/ Return

SpecReverse == InitReverse /\ [][NextReverse]_vars

\* ------------------------------------------------------- there and back
\* distanceTo3 of two points of one datum, then a method of _direct from
\* the first point with the distance and the initial bearing returned
InitRound ==
    /\ \E q \in Pairs, e \in SolverEpsilons, n \in SolverIterations :
          /\ pts = <<[NewPoint(q[1], q[2], 0, "WGS84")
                        EXCEPT !.epsilon = e, !.iterations = n],
                     NewPoint(q[3], q[4], 0, "WGS84")>>
          /\ job = [NoJob EXCEPT !.op = "inverse", !.method = "distanceTo3",
                                 !.other = 2, !.azis = TRUE]
    /\ call = IdleCall
    /\ prev = NoPrev
    /\ out = NoOut
    /\ thr = NoThreads

\* distanceTo3 returns after its iteration converged, and the caller
\* passes the distance and the initial bearing on to method m of _direct
Feed(m) ==
    /\ call.pc = "done" /\ job.op = "inverse" /\ call.end = "pass"
    /\ out' = [NoOut EXCEPT !.op = job.method, !.p = 1,
                            !.arg = repr(pts[1]),
                            !.val = Returned(job.method, call.val)]
    /\ job' = [job EXCEPT !.op = "direct", !.method = m,
                          !.distance = call.val[1], !.bearing = call.val[2],
                          !.llr = MethodLlr(m)]
    /\ call' = IdleCall
    /\ UNCHANGED <<pts, prev, thr>>

NextRound ==
    \/ InverseCall
    \/ InverseIter
    \/ \E m \in DirectMethods : Feed(m)
    \/ DirectCall
    \/ DirectIter
    \/ Return

SpecRound == InitRound /\ [][NextRound]_vars

\* ------------------------------------------------- solver configuration
\* points are constructed and their epsilon and iterations assigned, with
\* values inside, at and outside the bounds and with a string
MaxPoints == 3
Points    == 1 .. Len(pts)

ConfigEpsilons ==
    {Num(0), Num(EPS), Num(4 * EPS), Num(Scale + EPS), Str}
ConfigIterations ==
    {Num(MinIterations - 1), Num(MinIterations), Num(MaxIterations),
     Num(MaxIterations + 1), Str}

InitConfig ==
    /\ pts = <<NewPoint(0, 0, 0, "WGS84")>>
    /\ job = NoJob
    /\ call = IdleCall
    /\ prev = NoPrev
    /\ out = NoOut
    /\ thr = NoThreads

\* LatLon(lat, lon, height, datum)
New(lat, lon, height, datum) ==
    /\ Len(pts) < MaxPoints
    /\ pts' = Append(pts, NewPoint(lat, lon, height, datum))
    /\ out' = [NoOut EXCEPT !.op = "new", !.p = Len(pts) + 1]
    /\ UNCHANGED <<job, call, prev, thr>>

NextConfig ==
    \/ New(500, -57, 0, "OSGB36")
    \/ \E p \in Points, e \in ConfigEpsilons : SetEpsilon(p, e)
    \/ \E p \in Points, n \in ConfigIterations : SetIterations(p, n)

SpecConfig == InitConfig /\ [][NextConfig]_vars

\* ------------------------------------------------------ point mutations
\* one point is mutated and converted
Lats == {0, 450, -900}
Lons == {0, 900}

InitPoint ==
    /\ pts = <<NewPoint(0, 0, 0, "WGS84")>>
    /\ job = NoJob
    /\ call = IdleCall
    /\ prev = NoPrev
    /\ out = NoOut
    /\ thr = NoThreads

\* p.lat = lat
SetLat(p, lat) ==
    /\ pts' = [pts EXCEPT ![p] = SetLatOf(pts[p], lat)]
    /\ out' = [NoOut EXCEPT !.op = "lat", !.p = p, !.arg = lat]
    /\ UNCHANGED <<job, call, prev, thr>>

\* p.lon = lon
SetLon(p, lon) ==
    /\ pts' = [pts EXCEPT ![p] = SetLonOf(pts[p], lon)]
    /\ out' = [NoOut EXCEPT !.op = "lon", !.p = p, !.arg = lon]
    /\ UNCHANGED <<job, call, prev, thr>>

\* p.height = h
SetHeight(p, h) ==
    /\ pts' = [pts EXCEPT ![p] = SetHeightOf(pts[p], h)]
    /\ out' = [NoOut EXCEPT !.op = "height", !.p = p, !.arg = h]
    /\ UNCHANGED <<job, call, prev, thr>>

\* p.datum = datum
SetDatum(p, datum) ==
    /\ LET r == SetDatumOf(pts[p], datum)
       IN  /\ pts' = [pts EXCEPT ![p] = r.pt]
           /\ out' = [NoOut EXCEPT !.op = "datum", !.p = p, !.arg = datum,
                                   !.err = r.err]
    /\ UNCHANGED <<job, call, prev, thr>>

\* p.to3xyz()
To3xyz(p) ==
    /\ pts' = [pts EXCEPT ![p] = To3xyzOf(pts[p])]
    /\ out' = [NoOut EXCEPT !.op = "to3xyz", !.p = p, !.val = pts'[p].xyz]
    /\ UNCHANGED <<job, call, prev, thr>>

\* p.toUtm()
ToUtm(p) ==
    /\ pts' = [pts EXCEPT ![p] = ToUtmOf(pts[p])]
    /\ out' = [NoOut EXCEPT !.op = "toUtm", !.p = p, !.val = pts'[p].utm]
    /\ UNCHANGED <<job, call, prev, thr>>

\* p.toUps(pole): the UPS coordinate of ups.toUps8, kept as the lat, lon,
\* datum and pole it is of, is cached
ToUps(p, pole) ==
    /\ pts' = [pts EXCEPT ![p].ups =
                  IF @ = None
                  THEN <<"Ups", pts[p].lat, pts[p].lon, pts[p].datum, pole>>
                  ELSE @]
    /\ out' = [NoOut EXCEPT !.op = "toUps", !.p = p, !.arg = pole,
                            !.val = pts'[p].ups]
    /\ UNCHANGED <<job, call, prev, thr>>

\* p.toUtmUps(pole): the cached UTM coordinate; else, with a cached UPS
\* coordinate, the test reads the attribute pole of _utm, which is None;
\* else the coordinate of utmups.toUtmUps8 (UTM from 80 degrees south to
\* 84 degrees north, UPS beyond), cached by its type
ToUtmUps(p, pole) ==
    /\ LET pt == pts[p]
           u  == IF -80 * DegScale <= pt.lat /\ pt.lat < 84 * DegScale
                 THEN Utm8(pt, pt.datum)
                 ELSE <<"Ups", pt.lat, pt.lon, pt.datum,
                        IF pole # "" THEN pole
                        ELSE IF pt.lat < 0 THEN "S" ELSE "N">>
           Returned_(v) == [NoOut EXCEPT !.op = "toUtmUps", !.p = p,
                                         !.arg = pole, !.val = v]
       IN  IF pt.utm # None
           THEN pts' = pts /\ out' = Returned_(pt.utm)
           ELSE IF pt.ups # None
           THEN /\ pts' = pts
                /\ out' = [Returned_(None) EXCEPT !.err = "AttributeError"]
           ELSE /\ pts' = [pts EXCEPT ![p] = IF u[1] = "Utm"
                                             THEN [pt EXCEPT !.utm = u]
                                             ELSE [pt EXCEPT !.ups = u]]
                /\ out' = Returned_(u)
    /\ UNCHANGED <<job, call, prev, thr>>

NextPoint ==
    \/ \E lat \in Lats : SetLat(1, lat)
    \/ \E lon \in Lons : SetLon(1, lon)
    \/ \E h \in Heights : SetHeight(1, h)
    \/ \E d \in DatumValues : SetDatum(1, d)
    \/ To3xyz(1)
    \/ ToUtm(1)
    \/ \E pole \in {"N", "S"} : ToUps(1, pole)
    \/ \E pole \in {"", "N"} : ToUtmUps(1, pole)

SpecPoint == InitPoint /\ [][NextPoint]_vars

\* -------------------------------------------------------- conversions
\* a point is converted to its cartesian and back, and to another datum;
\* latitudes up to 87 degrees and the poles, longitudes in (-180, 180],
\* and the point whose cartesian is the centre of WGS84
ConvertPoints ==
    ({0, 1, 450, 870, 900, -450, -900} \X {0, 900, 1800, -1799} \X {0, 50, -3})
        \cup {<<0, 0, -WGS84_a>>}

\* the sines and cosines are exact to 1 / Scale, a radius of the
\* ellipsoid times that is 6 units of length: the height returns within
HeightTol == 10

InitConvert ==
    /\ \E q \in ConvertPoints, d \in Datums \cup {"ED50"} :
          pts = <<NewPoint(q[1], q[2], q[3], d)>>
    /\ job = NoJob
    /\ call = IdleCall
    /\ prev = NoPrev
    /\ out = NoOut
    /\ thr = NoThreads

\* Cartesian(*p.to3xyz()).to3llh(p.datum), of the cartesian just returned
To3llh(p) ==
    /\ out.op = "to3xyz" /\ out.p = p
    /\ out' = [NoOut EXCEPT !.op = "to3llh", !.p = p, !.arg = out.val,
                            !.val = to3llh(out.val, ellipsoid(pts[p]))]
    /\ UNCHANGED <<pts, job, call, prev, thr>>

\* p.convertDatum(datum); call keeps the Helmert steps the conversion
\* applied and the number of calls of convertDatum it made
ConvertDatum(p, datum) ==
    /\ \E r \in {convertDatum(pts[p], datum)} :
          /\ pts' = [pts EXCEPT ![p] = r.self]
          /\ out' = [NoOut EXCEPT !.op = "convertDatum", !.p = p,
                                  !.arg = datum, !.val = r.val]
          /\ call' = [IdleCall EXCEPT !.val = r.steps, !.n = r.calls]
    /\ UNCHANGED <<job, prev, thr>>

NextConvert ==
    \/ To3xyz(1)
    \/ To3llh(1)
    \/ \E d \in Datums \cup {"ED50"} : ConvertDatum(1, d)

SpecConvert == InitConvert /\ [][NextConvert]_vars

\* ------------------------------------------------------------- threads
\* point 1 is shared by a thread that assigns datum and a thread that
\* calls to3xyz; a step is one read or write of an attribute of the point.
\* setter: "check" the two checks, "update" the call of _update, "assign"
\* the assignment of _datum.  reader: "test" the test of _3xyz, "read" the
\* reads of lat, lon, datum and height and the computation, "store" the
\* assignment of _3xyz, "return" the read of _3xyz for the return value.
InitThreads ==
    /\ \E lat \in Lats, lon \in Lons, h \in Heights, d \in Datums, cached \in BOOLEAN :
          pts = <<IF cached THEN To3xyzOf(NewPoint(lat, lon, h, d))
                  ELSE NewPoint(lat, lon, h, d)>>
    /\ \E d \in DatumValues :
          thr = [setter |-> [pc |-> "check", datum |-> d],
                 reader |-> [pc |-> "test", xyz |-> None, val |-> None]]
    /\ job = NoJob
    /\ call = IdleCall
    /\ prev = NoPrev
    /\ out = NoOut

SetterCheck ==
    /\ thr.setter.pc = "check"
    /\ thr' = [thr EXCEPT !.setter.pc =
                  IF DatumCheck(thr.setter.datum) = "" THEN "update" ELSE "done"]
    /\ UNCHANGED <<pts, job, call, prev, out>>

SetterUpdate ==
    /\ thr.setter.pc = "update"
    /\ pts' = [pts EXCEPT ![1] = _update(pts[1], thr.setter.datum # pts[1].datum)]
    /\ thr' = [thr EXCEPT !.setter.pc = "assign"]
    /\ UNCHANGED <<job, call, prev, out>>

SetterAssign ==
    /\ thr.setter.pc = "assign"
    /\ pts' = [pts EXCEPT ![1].datum = thr.setter.datum]
    /\ thr' = [thr EXCEPT !.setter.pc = "done"]
    /\ UNCHANGED <<job, call, prev, out>>

ReaderTest ==
    /\ thr.reader.pc = "test"
    /\ thr' = [thr EXCEPT !.reader.pc =
                  IF pts[1].xyz = None THEN "read" ELSE "return"]
    /\ UNCHANGED <<pts, job, call, prev, out>>

ReaderRead ==
    /\ thr.reader.pc = "read"
    /\ thr' = [thr EXCEPT !.reader.pc = "store",
                          !.reader.xyz = Cartesian(pts[1], ellipsoid(pts[1]))]
    /\ UNCHANGED <<pts, job, call, prev, out>>

ReaderStore ==
    /\ thr.reader.pc = "store"
    /\ pts' = [pts EXCEPT ![1].xyz = thr.reader.xyz]
    /\ thr' = [thr EXCEPT !.reader.pc = "return"]
    /\ UNCHANGED <<job, call, prev, out>>

ReaderReturn ==
    /\ thr.reader.pc = "return"
    /\ thr' = [thr EXCEPT !.reader.pc = "done", !.reader.val = pts[1].xyz]
    /\ UNCHANGED <<pts, job, call, prev, out>>

NextThreads ==
    \/ SetterCheck
    \/ SetterUpdate
    \/ SetterAssign
    \/ ReaderTest
    \/ ReaderRead
    \/ ReaderStore
    \/ ReaderReturn

SpecThreads == InitThreads /\ [][NextThreads]_vars

\* ----------------------------------------------------- solver properties
Finished == call.pc \in {"done", "raised"}

SameEllipsoid == EllipsoidEq(ellipsoid(pts[1]), ellipsoid(pts[job.other]))

SameLatLon ==
    /\ pts[1].lat = pts[job.other].lat
    /\ pts[1].lon = pts[job.other].lon

\* C1: an inverse query between two points whose ellipsoids differ raises
\* ValueError before the first pass of the loop and returns no distance or
\* bearing, also when the two points have identical lat/lon.
C1_MismatchIsValueError ==
    (job.op = "inverse" /\ call.pc # "idle" /\ ~SameEllipsoid)
        => /\ call.pc = "raised" /\ call.err = "ValueError"
           /\ call.i = 0 /\ call.val = None

C1_Witness ==
    /\ job.op = "inverse" /\ job.other = 2
    /\ SameLatLon /\ pts[1].datum # pts[2].datum
    /\ call.pc = "raised" /\ call.err = "ValueError"

C3_Passes ==
    /\ call.i <= call.n
    /\ call.pc = "loop" =>
          /\ call.i < call.n
          /\ call.n = pts[1].iterations
          /\ call.n \in MinIterations .. MaxIterations
    /\ (call.pc = "raised" /\ call.i > 0) => call.err = "VincentyError"

C3_Step ==
    /\ call.pc = "loop" =>
          /\ call'.i = call.i + 1 /\ call'.n = call.n
          /\ call'.pc \in {"loop", "done", "raised"}
    /\ Finished => call'.pc = "idle"

\* C3: at most n = iterations passes, n in 4 .. 200, then the call has
\* returned or raised VincentyError; no pass is repeated, no call retried.
C3_Terminates == []C3_Passes /\ [][C3_Step]_vars

C3_Witness ==
    /\ call.pc = "raised" /\ call.err = "VincentyError"
    /\ call.i = MaxIterations

C5_Monotone ==
    (Finished /\ prev.set /\ call.err # "ValueError"
        /\ prev.epsilon <= pts[1].epsilon /\ prev.iterations <= pts[1].iterations)
        => call.pc = "done"

C5_Witness ==
    /\ call.pc = "done" /\ call.end = "pass" /\ call.i > 1
    /\ prev.set
    /\ prev.epsilon < pts[1].epsilon /\ prev.iterations < pts[1].iterations

\* C8: the inverse query between two equatorial points exactly 180 degrees
\* apart in longitude on one ellipsoid ends with VincentyError after all
\* n passes.
C8_AntipodalEquatorialRaises ==
    (job.op = "inverse" /\ Finished /\ SameEllipsoid
        /\ pts[1].lat = 0 /\ pts[job.other].lat = 0
        /\ Abs(pts[1].lon - pts[job.other].lon) = 180 * DegScale)
        => /\ call.pc = "raised" /\ call.err = "VincentyError"
           /\ call.i = call.n

\* ------------------------------------------------------ point properties
\* the caches of point q hold what a fresh computation gives
Fresh(q) ==
    /\ pts[q].xyz # None => pts[q].xyz = Cartesian(pts[q], ellipsoid(pts[q]))
    /\ pts[q].utm # None => pts[q].utm = Utm8(pts[q], pts[q].datum)

\* C6: after every sequence of assignments of lat, lon, height and datum
\* and calls of to3xyz and toUtm, the value to3xyz returns is the one
\* computed from the point's current lat, lon, height and datum, and no
\* cache reset by _update holds a value of earlier attributes.
C6_NeverStale ==
    /\ \A q \in Points : Fresh(q)
    /\ out.op = "to3xyz" =>
          out.val = Cartesian(pts[out.p], ellipsoid(pts[out.p]))
    /\ out.op = "toUtm" => out.val = Utm8(pts[out.p], pts[out.p].datum)

C6_Witness ==
    /\ out.op = "to3xyz" /\ out.val # None
    /\ pts[1].lat # 0 /\ pts[1].lon # 0
    /\ pts[1].datum = "OSGB36" /\ pts[1].height = MaxHeight
    /\ pts[1].utm # None

\* C7: with the datum setter and to3xyz run by two threads on one point,
\* once both have finished the cached cartesian is empty or the one
\* computed from the point's datum, in every interleaving.
C7_NoStaleSurvives ==
    (thr.setter.pc = "done" /\ thr.reader.pc = "done")
        => (pts[1].xyz = None
            \/ pts[1].xyz = Cartesian(pts[1], ellipsoid(pts[1])))

\* C9: a constructed point has the default epsilon and iterations, and an
\* assignment of epsilon or iterations to a point changes no other point
\* and not the defaults of the points constructed after it.
C9_Frame ==
    /\ \A q \in Points :
          pts'[q] # pts[q] => (out'.op \in {"epsilon", "iterations"} /\ out'.p = q)
    /\ Len(pts') > Len(pts) =>
          /\ pts'[Len(pts')].epsilon = _epsilon
          /\ pts'[Len(pts')].iterations = _iterations

C10_Bounds ==
    \A q \in Points :
        /\ pts[q].iterations \in MinIterations .. MaxIterations
        /\ pts[q].epsilon \in EPS .. Scale

C10_Assign ==
    /\ out'.err # "" => (pts' = pts /\ out'.err \in {"TypeError", "ValueError"})
    /\ out'.op = "iterations" =>
          /\ out'.err = "" <=> (out'.arg[1] = "float"
                                 /\ out'.arg[2] \in MinIterations .. MaxIterations)
          /\ out'.err = "" => pts'[out'.p].iterations = out'.arg[2]
    /\ out'.op = "epsilon" =>
          /\ out'.err = "" <=> (out'.arg[1] = "float" /\ out'.arg[2] \in EPS .. Scale)
          /\ out'.err = "" => pts'[out'.p].epsilon = out'.arg[2]

\* C10: every assignment is accepted and stored or raises and changes
\* nothing, the bounds 4 and 200 included; iterations stays in 4 .. 200.
C10_Validated == []C10_Bounds /\ [][C10_Assign]_vars

C10_Witness ==
    /\ out.op = "iterations" /\ out.err = "ValueError"
    /\ out.arg = Num(MaxIterations + 1)
    /\ pts[out.p].iterations = MinIterations
    /\ \E q \in Points : pts[q].iterations = MaxIterations

\* ------------------------------------------- the clamp of cosSqAlpha
\* sinAlpha is a product (_direct) or a quotient (_inverse) of rounded
\* values: out.arg holds one within SinAlphaSlack units of +-1 or of 0
SinAlphaSlack == 30

InitClamp ==
    /\ \E sa \in {Scale + d : d \in -SinAlphaSlack .. SinAlphaSlack}
                \cup {-Scale + d : d \in -SinAlphaSlack .. SinAlphaSlack}
                \cup {0, 1, -1, Div(Scale, 2)} :
          out = [NoOut EXCEPT !.op = "sinAlpha", !.arg = sa]
    /\ pts = <<NewPoint(0, 0, 0, "WGS84"), NewPoint(0, 0, 0, "WGS84")>>
    /\ job = NoJob
    /\ call = IdleCall
    /\ prev = NoPrev
    /\ thr = NoThreads

\* method m (_direct or _inverse) computes cosSqAlpha from sinAlpha and
\* uses it: out.val is <<the values the series A and B take, the values
\* _dl and the division for twoSigmaM take>>, empty where the branch
\* taken does not reach the use
Clamp(m) ==
    /\ out.op = "sinAlpha"
    /\ LET c2a == Scale - Mul(out.arg, out.arg)
           Direct(v)  == <<IF c2a < EPS THEN {} ELSE {v}, {v}>>
           Inverse(v) == <<IF v # 0 THEN {v} ELSE {},
                           IF Abs(c2a) < EPS THEN {} ELSE {v}>>
       IN  out' = [out EXCEPT !.op = m,
                              !.val = IF m = "_direct" THEN Direct(DirectC2a(c2a))
                                      ELSE Inverse(InverseC2a(c2a))]
    /\ UNCHANGED <<pts, job, call, prev, thr>>

NextClamp == \E m \in {"_direct", "_inverse"} : Clamp(m)

SpecClamp == InitClamp /\ [][NextClamp]_vars

\* ------------------------------------------------------------- frechet
\* indices and fractions are in tenths: IndexOne is the int 1 that stands
\* for no fractional indices; EPS and EPS1 of frechet.py lie between 0
\* and the first tenth and between the last tenth and 1
IndexOne == 10

\* INF, above every distance
FrechetINF == 1000

\* _fraction(fraction, n): fraction is <<>> for None, else <<value>>
_fraction(fraction, n) ==
    IF fraction = None \/ fraction = <<IndexOne>>
    THEN [err |-> "", f |-> IndexOne]
    ELSE IF ~(/\ 0 < fraction[1] /\ fraction[1] < IndexOne
              /\ n * IndexOne - fraction[1] < n * IndexOne)
    THEN [err |-> "FrechetError", f |-> IndexOne]
    ELSE [err |-> "", f |-> fraction[1]]

\* the overloaded Frechet.distance, by name, of two positions on a line
distance(name, p1, p2) ==
    IF name = "delta" THEN Abs(p1 - p2) ELSE Abs(2 * p1 - p2)

\* _fractional(points, fi): the point at index fi, interpolated between
\* its neighbours when fi is fractional
_fractional(points, fi) ==
    LET i == fi \div IndexOne
        f == fi - i * IndexOne
    IN  IF f > 0
        THEN points[i + 1] + (f * (points[i + 2] - points[i + 1])) \div IndexOne
        ELSE points[i + 1]

\* dF of discrete (and of frechet_, where both fractions are 1):
\* points_fraction for an index fraction below 1, else points_
dF(c, i, j) ==
    LET p(ps, f, k) == IF f < IndexOne THEN _fractional(ps, k)
                       ELSE ps[k \div IndexOne + 1]
    IN  distance(c.distance, p(c.ps1, c.fi, i), p(c.ps2, c.fj, j))

\* Python's order of the tuples (fd, i, j, r)
tless(a, b) ==
    \E k \in 1..4 : a[k] < b[k] /\ \A h \in 1..(k - 1) : a[h] = b[h]

\* variant of tmin: the diagonal neighbour is ignored
tmin_two(a, b, d) == IF tless(d, a) THEN d ELSE a

\* min of the three neighbours
tmin(a, b, d) ==
    IF tless(b, a) THEN (IF tless(d, b) THEN d ELSE b)
    ELSE (IF tless(d, a) THEN d ELSE a)

\* variant of Larger: the indices of the neighbour are kept
Larger_kept(t, d, i, j, r) == IF d > t[1] THEN <<d, t[2], t[3], r>> ELSE t

\* the larger of the neighbours' value t and the distance d at (i, j)
Larger(t, d, i, j, r) == IF d > t[1] THEN <<d, i, j, r>> ELSE t

\* rF of _frechet_ with its memo cF threaded through: st.cF maps <<i, j>>
\* to the cached tuple, st.dFs lists the calls of dF in order
RECURSIVE rF(_, _, _, _, _)
rF(c, st, i, j, r) ==
    IF <<i, j>> \in DOMAIN st.cF THEN [t |-> st.cF[<<i, j>>], st |-> st]
    ELSE
        LET Cache(t, s) ==
                [t |-> t, st |-> [s EXCEPT !.cF = (<<i, j>> :> t) @@ @]]
            Measure(t, s) ==
                Cache(Larger(t, dF(c, i, j), i, j, r + 1),
                      [s EXCEPT !.dFs = Append(@, <<i, j>>)])
            IndexError == Cache(<<FrechetINF, i, j, r + 1>>, st)
            One(a) == Measure(a.t, a.st)
            Three(a) ==
                The({The({Measure(tmin(a.t, b.t, d.t), d.st) :
                            d \in {rF(c, b.st, i, j - c.fj, r + 1)}}) :
                       b \in {rF(c, a.st, i - c.fi, j - c.fj, r + 1)}})
        IN  IF i > 0
            THEN IF j > 0
                 THEN The({Three(a) : a \in {rF(c, st, i - c.fi, j, r + 1)}})
                 ELSE IF j < 0 THEN IndexError
                 ELSE The({One(a) : a \in {rF(c, st, i - c.fi, 0, r + 1)}})
            ELSE IF i < 0 THEN IndexError
            ELSE IF j > 0
            THEN The({One(a) : a \in {rF(c, st, 0, j - c.fj, r + 1)}})
            ELSE IF j < 0 THEN IndexError
            ELSE Measure(<<-FrechetINF, i, j, r + 1>>, st)

\* no run of _frechet_: its memo lives for one run
NoMemo == [cF |-> <<>>, dFs |-> <<>>]

\* _frechet_(ni, fi, nj, fj, dF, units): the Frechet6Tuple and the memo
_frechet_(c, ni, nj, units) ==
    LET Tuple(run) ==
            [val |-> run.t \o <<Cardinality(DOMAIN run.st.cF), units>>,
             st |-> run.st]
    IN  The({Tuple(run) :
               run \in {rF(c, NoMemo,
                           (ni - 1) * IndexOne, (nj - 1) * IndexOne, 0)}})

\* the longest path and the positions of its points
MaxPath == 3
Positions == {0, 10}

\* pts[1] is the calculator Frechet(points1, fraction), job.points the
\* second path, call the memo of the run of _frechet_ that out reports.
\* Frechet.__init__ enters the fraction setter only for a fraction that
\* is true, so that None and 0 leave _f1 = 1
InitFrechet ==
    /\ \E n1 \in 1..MaxPath, n2 \in 1..MaxPath :
         \E ps1 \in [1..n1 -> Positions], ps2 \in [1..n2 -> Positions],
            fraction \in {None, <<0>>, <<5>>}, d \in {"delta", "skew"} :
              /\ pts = <<[ps1 |-> ps1, n1 |-> n1, units |-> "units",
                          distance |-> d,
                          f1 |-> IF fraction \in {None, <<0>>} THEN IndexOne
                                 ELSE _fraction(fraction, n1).f]>>
              /\ job = [op |-> "frechet", points |-> ps2]
    /\ call = NoMemo
    /\ prev = NoPrev
    /\ out = NoOut
    /\ thr = NoThreads

\* the fractions a caller passes: None, 0, 1, a half, three tenths, and
\* one above 1
Fractions == {None, <<0>>, <<IndexOne>>, <<5>>, <<3>>, <<15>>}

\* Frechet.fraction = fraction
SetFraction(fraction) ==
    /\ LET r == _fraction(fraction, pts[1].n1)
       IN  /\ pts' = IF r.err = "" THEN [pts EXCEPT ![1].f1 = r.f] ELSE pts
           /\ out' = [NoOut EXCEPT !.op = "fraction", !.p = 1, !.arg = fraction,
                                   !.err = r.err]
    /\ call' = NoMemo
    /\ UNCHANGED <<job, prev, thr>>

\* Frechet.discrete(points, fraction)
Discrete(fraction) ==
    /\ LET n2 == Len(job.points)
           r  == _fraction(fraction, n2)
           c  == [fi |-> pts[1].f1, fj |-> r.f, ps1 |-> pts[1].ps1,
                  ps2 |-> job.points, distance |-> pts[1].distance]
           Done(run) ==
               /\ out' = [NoOut EXCEPT !.op = "discrete", !.p = 1,
                                       !.arg = fraction, !.val = run.val]
               /\ call' = run.st
       IN  IF r.err # ""
           THEN /\ out' = [NoOut EXCEPT !.op = "discrete", !.p = 1,
                                        !.arg = fraction, !.err = r.err]
                /\ call' = NoMemo
           ELSE \E run \in {_frechet_(c, pts[1].n1, n2, pts[1].units)} : Done(run)
    /\ UNCHANGED <<pts, job, prev, thr>>

\* frechet_(points1, points2, distance, units) of the two paths
Frechet_ ==
    /\ LET c == [fi |-> IndexOne, fj |-> IndexOne, ps1 |-> pts[1].ps1,
                 ps2 |-> job.points, distance |-> pts[1].distance]
       IN  \E run \in {_frechet_(c, pts[1].n1, Len(job.points), pts[1].units)} :
              /\ out' = [NoOut EXCEPT !.op = "frechet_", !.val = run.val]
              /\ call' = run.st
    /\ UNCHANGED <<pts, job, prev, thr>>

NextFrechet ==
    \/ \E fraction \in Fractions : SetFraction(fraction)
    \/ \E fraction \in Fractions : Discrete(fraction)
    \/ Frechet_

SpecFrechet == InitFrechet /\ [][NextFrechet]_vars

\* ------------------------------------------------------------------ C11
\* the last operation was a call of the method of this query, and no
\* assignment to epsilon or iterations came after it
Repeated == Finished /\ out.op = job.method

\* the outcome of the call that has finished is the recorded one
SameOutcome ==
    /\ call.err = out.err
    /\ (call.pc = "done") = (out.err = "")
    /\ call.pc = "done" => Returned(job.method, call.val) = out.val

\* a step of a call leaves every point as it was
C11_Frame ==
    (call.pc # "idle" \/ call'.pc # "idle") => pts' = pts

NearAntipode ==
    /\ job.op = "inverse" /\ SameEllipsoid
    /\ isantipodeTo(pts[1], pts[job.other], 2 * Scale)
    /\ ~isantipodeTo(pts[1], pts[job.other], pts[1].epsilon)

Position(pt) == <<pt.lat, pt.lon, pt.height, pt.datum>>

\* the point convertDatum returned has the datum asked for and, when that
\* is the datum of the point, the position of the point
C13_Result ==
    out.op = "convertDatum"
        => /\ out.val.datum = out.arg
           /\ out.arg = pts[out.p].datum => Position(out.val) = Position(pts[out.p])

\* a step leaves the position of every point as it was
C13_Frame == \A p \in DOMAIN pts : Position(pts'[p]) = Position(pts[p])

\* C13: p.convertDatum(d) returns a new point whose datum is d and leaves
\* lat, lon, height and datum of p unchanged; when d is the datum of p
\* the result is a copy that compares equal to p, no transform applied.
C13_ConvertDatum == []C13_Result /\ [][C13_Frame]_vars

\* a point off the equator was converted to the other datum, and to its own
C13_Witness ==
    /\ out.op = "convertDatum" /\ pts[1].lat = 450 /\ pts[1].height = 50
    /\ pts[1].xyz # None
    /\ out.arg = pts[1].datum

\* ------------------------------------------------------------------ C18
\* C18, to the precision of the grid: converting a point to its
\* geocentric cartesian (to3xyz) and back (to3llh) returns its latitude
\* and longitude to the tenth of a degree and its height within
\* HeightTol, for a point no deeper than HeightTol below the ellipsoid,
\* except that at the poles the longitude returned is 0.
C18_RoundTrip ==
    (out.op = "to3llh" /\ out.arg = pts[out.p].xyz
                      /\ pts[out.p].height >= -HeightTol)
        => /\ out.val[1] = pts[out.p].lat
           /\ out.val[2] = IF Abs(pts[out.p].lat) = 90 * DegScale THEN 0
                           ELSE pts[out.p].lon
           /\ Abs(out.val[3] - pts[out.p].height) <= HeightTol

\* the round trip of a pole at a longitude other than 0
C18_Witness ==
    /\ out.op = "to3llh"
    /\ pts[1].lat = -900 /\ pts[1].lon = 900 /\ out.val[2] = 0

\* ------------------------------------------------------------------ C14
\* the point destination and destination2 return: its height is the
\* height argument when one is given, else the height of the start point,
\* and its datum is the datum of the start point
C14_Result ==
    (Finished /\ call.pc = "done" /\ job.method \in {"destination", "destination2"})
        => /\ call.val[1][3] = IF job.height[1] THEN job.height[2]
                               ELSE pts[1].height
           /\ call.val[1][4] = pts[1].datum
           /\ Returned(job.method, call.val)[1] = call.val[1]

\* a step of a direct query leaves the start point as it was
C14_Frame ==
    (job.op = "direct" /\ (call.pc # "idle" \/ call'.pc # "idle"))
        => pts'[1] = pts[1]

\* C14: destination and destination2 return a point whose height is the
\* height argument whenever one is given, an explicit 0 included, and the
\* height of the start point when the argument is None, and whose datum
\* is the datum of the start point; the start point is left unchanged.
C14_Destination == []C14_Result /\ [][C14_Frame]_vars

\* destination returned from a start point at height with height = 0
C14_Witness ==
    /\ Finished /\ call.pc = "done" /\ job.method = "destination"
    /\ job.height = <<TRUE, 0>> /\ pts[1].height > 0
    /\ call.val[1][3] = 0

\* ------------------------------------------------------------------ C15
\* part k of the triple (distance, initial bearing, final bearing) in the
\* value v that method m returned: <<x>>, or <<>> when m does not return it
Part(k, m, v) ==
    CASE m = "distanceTo3"                   -> <<v[k]>>
      [] m = "distanceTo" /\ k = 1           -> <<v[1]>>
      [] m = "initialBearingTo" /\ k = 2     -> <<v[1]>>
      [] m = "finalBearingTo" /\ k = 3       -> <<v[1]>>
      [] m = "bearingTo2" /\ k \in {2, 3}    -> <<v[k - 1]>>
      [] OTHER                               -> <<>>

\* a method of _inverse has finished after another one (out.op) returned
\* or raised for the same points
AfterMethod == Finished /\ out.op \in InverseMethods

\* C15: for any two points and wrap flag, distanceTo returns the distance
\* of distanceTo3, initialBearingTo and finalBearingTo its initial and
\* final bearing, bearingTo2 that pair, and all of them raise the same
\* error in the same cases: asking for the bearings changes neither the
\* distance nor the outcome of the iteration.
C15_MethodsAgree ==
    AfterMethod
        => /\ call.err = out.err
           /\ (call.pc = "done") = (out.err = "")
           /\ call.pc = "done"
                => \A k \in 1 .. 3 :
                      \/ Part(k, out.op, out.val) = <<>>
                      \/ Part(k, job.method, Returned(job.method, call.val)) = <<>>
                      \/ Part(k, job.method, Returned(job.method, call.val))
                            = Part(k, out.op, out.val)

\* finalBearingTo returned after distanceTo3 for two distinct points
C15_Witness ==
    /\ AfterMethod /\ call.pc = "done"
    /\ job.method = "finalBearingTo" /\ out.op = "distanceTo3"
    /\ out.val[1] > 0 /\ out.val[2] # out.val[3]

\* ------------------------------------------------------------------ C16
\* distanceTo has finished, and the call before it was the one of the
\* other point to this one
AfterReverse ==
    /\ Finished /\ out.op = "distanceTo"
    /\ out.arg = repr(pts[2]) /\ repr(pts[1]) # repr(pts[2])

\* the length on the ellipsoid of the angle epsilon, and a unit for the
\* rounding of the grid
Tolerance(pt) == Mul(pt.epsilon, ellipsoid(pt).a) + 1

\* C16: for two points of one ellipsoid for which the iteration converges
\* the distance from the one to the other equals the distance back within
\* the tolerance of epsilon, and one direction raises an error exactly
\* when the other does.
C16_Symmetric ==
    AfterReverse
        => /\ (call.pc = "done") = (out.err = "")
           /\ call.err = out.err
           /\ call.pc = "done"
                => Abs(call.val[1] - out.val[1]) <= Tolerance(pts[1])

\* ------------------------------------------------------------------ C17
\* a method of _direct has returned for the distance and the initial
\* bearing that distanceTo3 (out) returned when its iteration converged
ThereAndBack ==
    /\ Finished /\ call.pc = "done" /\ job.op = "direct"
    /\ out.op = "distanceTo3"

\* angles a and b, in tenths of a degree, differ by at most d modulo 360
Near(a, b, d) == Abs(wrap180(a - b)) <= d

IsBearing(x) == 0 <= x /\ x < 360 * DegScale

\* the bearings in the value v that method m returned
Bearings(m, v) ==
    CASE m \in {"distanceTo3", "bearingTo2"}  -> {v[Len(v) - 1], v[Len(v)]}
      [] m \in {"initialBearingTo", "finalBearingTo", "finalBearingOn"}
                                              -> {v[1]}
      [] m = "destination2"                   -> {v[2]}
      [] OTHER                                -> {}

\* the methods that return what the call in progress computes
SameCall(m) ==
    IF job.op = "inverse" THEN m \in InverseMethods /\ MethodAzis(m) = job.azis
    ELSE m \in DirectMethods /\ MethodLlr(m) = job.llr

C20_DirectClamped ==
    out.op = "_direct"
        => \A k \in 1..2 : \A x \in out.val[k] : x >= 0

\* _direct replaced a negative 1 - sinAlpha^2 by 0
C20_DirectWitness ==
    /\ out.op = "_direct" /\ Scale - Mul(out.arg, out.arg) < 0
    /\ out.val[2] = {0}

\* ------------------------------------------------------------------ C21
\* the fractions that stand for no intermediate points
NoFraction == {None, <<0>>, <<IndexOne>>}

\* C21: Frechet.discrete(points, fraction) and the fraction setter treat
\* None, 0 and 1 alike: each is accepted without FrechetError and leads
\* to integer indices in the result (fi2 for discrete's fraction, fi1 when
\* the calculator's own fraction is 1).
C21_NoFractionAccepted ==
    (out.op \in {"fraction", "discrete"} /\ out.arg \in NoFraction)
        => /\ out.err = ""
           /\ out.op = "fraction" => pts[1].f1 = IndexOne
           /\ out.op = "discrete"
                => /\ out.val[3] % IndexOne = 0
                   /\ pts[1].f1 = IndexOne => out.val[2] % IndexOne = 0

\* ------------------------------------------------------------------ C22
\* a run with integer indices has returned
IntegerRun ==
    \/ out.op = "frechet_"
    \/ /\ out.op = "discrete" /\ out.err = "" /\ pts[1].f1 = IndexOne
       /\ _fraction(out.arg, Len(job.points)).f = IndexOne

\* C22: for integer indices the Frechet6Tuple (fd, fi1, fi2, r, n, units)
\* of frechet_ and of Frechet.discrete has 0 <= fi1 < n1, 0 <= fi2 < n2
\* and fd = distance(points1[fi1], points2[fi2]), for every pair of paths
\* and every distance function.
C22_TupleNamesDistance ==
    IntegerRun
        => LET i1 == out.val[2] \div IndexOne
               i2 == out.val[3] \div IndexOne
           IN  /\ out.val[2] % IndexOne = 0 /\ out.val[3] % IndexOne = 0
               /\ 0 <= i1 /\ i1 < pts[1].n1
               /\ 0 <= i2 /\ i2 < Len(job.points)
               /\ out.val[1] = distance(pts[1].distance, pts[1].ps1[i1 + 1],
                                        job.points[i2 + 1])

\* frechet_ returned a distance reached at inner indices of both paths
C22_Witness ==
    /\ out.op = "frechet_" /\ out.val[1] > 0
    /\ out.val[2] = IndexOne /\ out.val[3] = IndexOne
    /\ pts[1].n1 = 3 /\ Len(job.points) = 3

\* ------------------------------------------------------------------ C23
\* the coupling value c(i, j) of the reference recurrence for the paths
\* and the distance of the state
RECURSIVE Coupling(_, _)
Coupling(i, j) ==
    LET d == distance(pts[1].distance, pts[1].ps1[i + 1], job.points[j + 1])
    IN  IF i = 0 /\ j = 0 THEN d
        ELSE IF j = 0 THEN Max(Coupling(i - 1, 0), d)
        ELSE IF i = 0 THEN Max(Coupling(0, j - 1), d)
        ELSE Max(Min(Coupling(i - 1, j),
                     Min(Coupling(i - 1, j - 1), Coupling(i, j - 1))), d)

\* C23: the fd of frechet_ for paths of lengths n1, n2 and distance d is
\* the coupling value c(n1 - 1, n2 - 1) of the reference recurrence.
C23_IsCoupling ==
    IntegerRun => out.val[1] = Coupling(pts[1].n1 - 1, Len(job.points) - 1)

\* frechet_ returned a value below the largest distance of two paths of
\* three points
C23_Witness ==
    /\ out.op = "frechet_" /\ pts[1].n1 = 3 /\ Len(job.points) = 3
    /\ out.val[1] > 0
    /\ \E i \in 1..3, j \in 1..3 :
          distance(pts[1].distance, pts[1].ps1[i], job.points[j]) > out.val[1]

\* ------------------------------------------------------------------ C24
\* a run of _frechet_ has returned
AnyRun == out.op \in {"frechet_", "discrete"} /\ out.err = ""

\* C24: in _frechet_ the distance of each index pair is computed at most
\* once, the reported n is the number of distances computed, and for
\* integer indices n = n1 * n2.
C24_CountsDistances ==
    AnyRun
        => /\ \A h, k \in DOMAIN call.dFs : call.dFs[h] = call.dFs[k] => h = k
           /\ out.val[5] = Len(call.dFs)
           /\ IntegerRun => out.val[5] = pts[1].n1 * Len(job.points)

\* the part of C24 that holds for every run: no distance twice, and for
\* integer indices n = n1 * n2 distances
C24_IntegerCounts ==
    AnyRun
        => /\ \A h, k \in DOMAIN call.dFs : call.dFs[h] = call.dFs[k] => h = k
           /\ IntegerRun => /\ out.val[5] = pts[1].n1 * Len(job.points)
                            /\ out.val[5] = Len(call.dFs)

\* ------------------------------------------------------------------ C25
\* the Helmert steps from datum s to datum d: none for the same datum,
\* the target's transform forward from WGS84, the source's inverted to
\* WGS84, and otherwise the second after the first
StepsBetween(s, d) ==
    IF s = d THEN <<>>
    ELSE IF s = "WGS84" THEN <<(<<d, FALSE>>)>>
    ELSE IF d = "WGS84" THEN <<(<<s, TRUE>>)>>
    ELSE <<(<<s, TRUE>>), (<<d, FALSE>>)>>

\* C25: convertDatum selects the Helmert step from the two datums: from
\* WGS84 the target's transform forward, to WGS84 the source's inverted,
\* and when neither is WGS84 first the conversion to WGS84 and then the
\* target's forward; the nested conversion does not recurse further, so
\* that a conversion makes at most two calls of convertDatum and returns.
C25_HelmertSteps ==
    out.op = "convertDatum"
        => /\ call.val = StepsBetween(pts[out.p].datum, out.arg)
           /\ call.n <= 2
           /\ call.n = 2 <=> "WGS84" \notin {pts[out.p].datum, out.arg}
                             /\ pts[out.p].datum # out.arg
           /\ out.val # None /\ out.val.datum = out.arg

\* a point of OSGB36 converted to ED50, by way of WGS84
C25_Witness ==
    /\ out.op = "convertDatum" /\ pts[1].datum = "OSGB36" /\ out.arg = "ED50"
    /\ call.n = 2 /\ Len(call.val) = 2 /\ pts[1].lat = 450

\* ------------------------------------------------------------------ C26
\* the error the claim gives for a datum assigned
DatumError(datum) ==
    IF datum = "str" THEN "TypeError"
    ELSE IF datum = "Sphere" THEN "ValueError"
    ELSE ""

\* an assignment of datum: its error; with an error, or with the datum
\* the point has, the point is as before; else the point has the datum
\* and empty caches
C26_Assigned ==
    out'.op = "datum"
        => LET q == out'.p
           IN  /\ out'.err = DatumError(out'.arg)
               /\ (out'.err # "" \/ out'.arg = pts[q].datum) => pts' = pts
               /\ (out'.err = "" /\ out'.arg # pts[q].datum)
                    => /\ pts'[q].datum = out'.arg
                       /\ pts'[q].xyz = None /\ pts'[q].utm = None
                       /\ pts'[q].ups = None
                       /\ Position(pts'[q])[1] = pts[q].lat
                       /\ Position(pts'[q])[2] = pts[q].lon

\* C26: assigning a point's datum a value that is not a Datum raises
\* TypeError and a Datum that is not ellipsoidal ValueError, both leaving
\* the datum and all caches of the point as they were; assigning the
\* datum the point has keeps the caches, and only a different valid datum
\* resets them.
C26_DatumSetter == [][C26_Assigned]_vars

\* a spherical datum was refused and a datum equal to the point's was
\* assigned, with both caches filled
C26_Witness ==
    /\ out.op = "datum" /\ out.arg \in {"Sphere", pts[1].datum}
    /\ pts[1].xyz # None /\ pts[1].utm # None /\ pts[1].datum = "OSGB36"

\* ------------------------------------------------------------------ C29
\* C29: after any sequence of toUtm, toUps and toUtmUps on a point,
\* toUtmUps returns a UTM or UPS coordinate without an internal error;
\* when only a UPS coordinate is cached, toUtmUps() with no pole returns
\* that UPS coordinate.
C29_ToUtmUpsReturns ==
    out.op = "toUtmUps"
        => /\ out.err = ""
           /\ out.val # None /\ out.val[1] \in {"Utm", "Ups"}
           /\ (pts[out.p].utm = None /\ out.arg = "") => out.val = pts[out.p].ups

\* ------------------------------------------------------------------ C27
\* the two points of the query coincide: the same latitude, and the same
\* longitude modulo 360 degrees
Coincide ==
    /\ pts[1].lat = pts[job.other].lat
    /\ (pts[1].lon - pts[job.other].lon) % (360 * DegScale) = 0

\* C27: _inverse returns the zero result of the coincident shortcut
\* (distance 0, bearings 0) only for points that coincide; for distinct
\* points, exact antipodes included, it returns a positive distance or
\* raises VincentyError.
C27_ZeroOnlyCoincident ==
    (job.op = "inverse" /\ Finished /\ SameEllipsoid /\ ~Coincide)
        => \/ call.pc = "raised" /\ call.err = "VincentyError"
           \/ call.pc = "done" /\ call.val[1] > 0

\* ------------------------------------------------------------------ C28
\* C28: the case split of to3llh is decided by p = hypot(x, y) alone:
\* r = hypot(p, z) >= p, so that the general branch is taken exactly when
\* p > EPS and the polar branch (lat +-90 by the sign of z, lon 0, height
\* |z| - b) exactly when p <= EPS, at the origin too; the branch for
\* p > EPS and r <= EPS (lat 0, height p - a) is taken for no input.
C28_DecidedByP ==
    out.op = "to3llh"
        => LET z == out.arg[3]
               p == hypot(out.arg[1], out.arg[2])
               r == hypot(p, z)
           IN  /\ r >= p
               /\ to3llhCase(p, r) = IF p > 0 THEN "general" ELSE "polar"
               /\ p <= 0 => out.val = <<IF z < 0 THEN -90 * DegScale
                                        ELSE 90 * DegScale,
                                        0, Abs(z) - ellipsoid(pts[out.p]).b>>

\* to3llh of the centre of the ellipsoid
C28_Witness ==
    /\ out.op = "to3llh" /\ out.arg = <<0, 0, 0>>
    /\ out.val = <<90 * DegScale, 0, -ellipsoid(pts[out.p]).b>>

\* ------------------------------------------------------------------ C30
\* C30: the distance correction after the loop of _inverse reads c2sm
\* only when the c2a of the last pass is not 0, and then c2sm was assigned
\* in that pass (from its cs and c2a): no call ends in the error of an
\* unassigned c2sm, and for an equatorial line (c2a = 0) the distance is
\* b times sigma, without the series.
C30_ReadsAssigned ==
    /\ call.err # "UnboundLocalError"
    /\ (job.op = "inverse" /\ call.pc = "done" /\ call.end = "pass")
         => IF call.v.c2a # 0
            THEN /\ call.v.c2smSet
                 /\ call.v.c2sm
                      = call.v.cs - Quot(2 * call.env.s1s2, call.v.c2a)
            ELSE call.val[1] = Mul(ellipsoid(pts[1]).b, call.v.s)

\* an equatorial line was measured: no pass assigned c2sm
C30_Witness ==
    /\ job.op = "inverse" /\ call.pc = "done" /\ call.end = "pass"
    /\ call.v.c2a = 0 /\ ~call.v.c2smSet /\ call.val[1] > 0

====
